---- MODULE Spec2Model ----
(***************************************************************************)
(* State-machine model of the axios interceptor module (src/lib/axios.ts), *)
(* the zustand credential store (src/store/auth.ts) and the demo API       *)
(* routes (app/api/.../route.ts).                                          *)
(*                                                                         *)
(* Scheduling.  The module runs on the JavaScript event loop.  Code        *)
(* between two awaits is one atomic step.  The interceptor suspends in     *)
(* two places: while the transport is outstanding (pc = "sent") and while  *)
(* the initiator awaits refreshAccessToken() (pc = "refreshing").  When    *)
(* refreshAccessToken() returns without starting its 400 ms timer the      *)
(* await is a microtask hop: rejected-handlers of other requests that are  *)
(* already settling may still run before the continuation, but handlers of *)
(* DOM events (sending a new request, the token form) cannot.              *)
(***************************************************************************)
EXTENDS Naturals, Integers, Sequences, FiniteSets, TLC

\* ------------------------------------------------------------------ bounds
NumRequests == 2

\* logical requests, numbered in the order in which they are issued
Requests == 1..NumRequests

\* --------------------------------------------------------------- constants
NULL == "null"

\* axios.ts:73, the token the demo refresh hands out
NewAccessToken == "new-access-token"

\* the token form of the home page (zod schema, defaults): what it can store (zod: both at least 3 chars)
FormAccessTokens == {"demo-access", "token-expired"}
FormRefreshTokens == {"demo-refresh"}

\* axios.ts:249-251, dispatcher identities, as character sequences
ApiNames ==
  [hqApi     |-> <<"H","Q","-","E","R","P">>,
   clientApi |-> <<"C","l","i","e","n","t","-","A","p","p">>,
   vendorApi |-> <<"V","e","n","d","o","r","-","E","R","P">>]

Apis == DOMAIN ApiNames

\* demo.ts:59-84, 37-45, 48-56: every fetch function is bound to one
\* dispatcher; request r is a call of the r-th of them (cyclically)
ApiOf(r) == <<"vendorApi", "hqApi", "clientApi">>[((r - 1) % 3) + 1]

\* demo.ts: the path requested on each dispatcher (error.config.url)
UrlOf(api) ==
  IF api = "hqApi" THEN "/summary"
  ELSE IF api = "clientApi" THEN "/profile"
  ELSE "/orders"

\* demo.ts: the status query parameter a call may carry
Params == {"none", "404", "500"}

\* statuses of a backend other than the demo routes (the interceptor is
\* backend-agnostic); 0 stands for "no response" (error.response undefined)
OtherStatuses == {401, 403}

\* ------------------------------------------------------------------- state
VARIABLES
  accessToken,    \* auth.ts:14
  refreshToken,   \* auth.ts:15
  isRefreshing,   \* axios.ts:34
  refreshQueue,   \* axios.ts:35, the queued callbacks, by request
  req,            \* per logical request: position and originalConfig
  refreshLog,     \* history: one entry per refreshAccessToken() invocation
  storeFromRefresh, \* history: the store still holds what the last successful refresh wrote
  lastWrite       \* history: the last operation applied to the store

vars == <<accessToken, refreshToken, isRefreshing, refreshQueue, req,
          refreshLog, storeFromRefresh, lastWrite>>

NoRedirect == [status |-> 0, api |-> <<>>]

NoWarn == [api |-> <<>>, status |-> 0, url |-> NULL]

NewRequest ==
  [pc       |-> "new",      \* new, sent, refreshing, awaiting, done, failed
   api      |-> "hqApi",
   param    |-> "none",
   retry    |-> FALSE,      \* originalConfig._retry
   bearer   |-> NULL,       \* Authorization header as last transmitted
   sends    |-> 0,          \* transmissions so far
   status   |-> 0,          \* status of the last response
   rejected |-> FALSE,      \* the caller's promise was rejected
   redirect |-> NoRedirect, \* window.location.href assigned for this request
   warn     |-> NoWarn,     \* console.warn record written for this request
   effects  |-> <<>>,       \* what handleGlobalError did for it, in order
   joined   |-> 0,          \* refresh whose outcome the request waits for
   sawInFlight |-> FALSE,   \* its 401 was handled while isRefreshing
   delivered |-> NULL,      \* token handed to its queued callback
   deliveredBy |-> 0,       \* refresh whose publish called its callback
   calls    |-> 0,          \* times its queued callback was called
   afterRefresh |-> FALSE]  \* issued while the store held a refresh's result

\* ------------------------------------------------------- credential store
\* auth.ts:13-15, the pair the store is created with
InitialTokens == [accessToken |-> NULL, refreshToken |-> NULL]

setTokens_KeepsRefreshToken(tokens) ==
  /\ accessToken' = tokens.accessToken
  /\ refreshToken' = refreshToken

\* auth.ts:16
setTokens(tokens) ==
  /\ accessToken' = tokens.accessToken
  /\ refreshToken' = tokens.refreshToken

\* auth.ts:17
clearTokens ==
  /\ accessToken' = NULL
  /\ refreshToken' = NULL

\* ------------------------------------------------------------ demo backend
\* route.ts: authHeader.includes("expired")
IncludesExpired(authHeader) == authHeader \in {"token-expired"}

\* route.ts GET
GET(authHeader, status) ==
  IF IncludesExpired(authHeader) THEN 401
  ELSE IF status = "404" THEN 404
  ELSE IF status = "500" THEN 500
  ELSE 200

\* ------------------------------------------------------------ error report
Unreserved ==
  {"A","B","C","D","E","F","G","H","I","J","K","L","M","N","O","P","Q","R",
   "S","T","U","V","W","X","Y","Z",
   "a","b","c","d","e","f","g","h","i","j","k","l","m","n","o","p","q","r",
   "s","t","u","v","w","x","y","z",
   "0","1","2","3","4","5","6","7","8","9","-","_",".","!","~","*","'","(",")"}

\* escape of one character that is not unreserved (ASCII subset in use)
Escape(c) ==
  IF c = " " THEN <<"%","2","0">>
  ELSE IF c = "&" THEN <<"%","2","6">>
  ELSE IF c = "=" THEN <<"%","3","D">>
  ELSE <<"%","3","F">>

RECURSIVE encodeURIComponent(_)
encodeURIComponent(s) ==
  IF s = <<>> THEN <<>>
  ELSE (IF Head(s) \in Unreserved THEN <<Head(s)>> ELSE Escape(Head(s)))
       \o encodeURIComponent(Tail(s))

Unescape(h1, h2) ==
  IF <<h1, h2>> = <<"2","0">> THEN " "
  ELSE IF <<h1, h2>> = <<"2","6">> THEN "&"
  ELSE IF <<h1, h2>> = <<"3","D">> THEN "="
  ELSE "?"

\* error/page.tsx:36
RECURSIVE decodeURIComponent(_)
decodeURIComponent(s) ==
  IF s = <<>> THEN <<>>
  ELSE IF Head(s) = "%" /\ Len(s) >= 3
       THEN <<Unescape(s[2], s[3])>> \o decodeURIComponent(SubSeq(s, 4, Len(s)))
       ELSE <<Head(s)>> \o decodeURIComponent(Tail(s))

ShouldRedirect_Only404And500(status) == status = 404 \/ status = 500

\* axios.ts:100, the guard of the redirect
ShouldRedirect(status) == status # 0 /\ status >= 400 /\ status # 401

\* axios.ts:87-104, the value assigned to window.location.href (or none)
handleGlobalError(status, apiName) ==
  IF ShouldRedirect(status)
  THEN [status |-> status, api |-> encodeURIComponent(apiName)]
  ELSE NoRedirect

consoleWarn_Silent(status, apiName, url) == NoWarn

\* axios.ts:90-96, the record handed to console.warn (or none)
consoleWarn(status, apiName, url) ==
  IF status = 404 THEN [api |-> apiName, status |-> 404, url |-> url]
  ELSE IF status = 500 THEN [api |-> apiName, status |-> 500, url |-> NULL]
  ELSE NoWarn

\* axios.ts:87-104, the side effects of one call in program order
Effects(status, apiName, url) ==
  (IF consoleWarn(status, apiName, url) # NoWarn THEN <<"warn">> ELSE <<>>)
  \o (IF handleGlobalError(status, apiName) # NoRedirect
      THEN <<"redirect">> ELSE <<>>)

\* ----------------------------------------------------------------- refresh
validateStatus_Only204(status) == status = 204

\* axios.ts:146-147: the success handler runs for the statuses the axios
\* default validateStatus accepts, the error handler for everything else
validateStatus(status) == status >= 200 /\ status < 300

RefreshedTokens_DropsRefreshToken(newToken) ==
  [accessToken |-> newToken, refreshToken |-> NULL]

RefreshedTokens_KeepsStartToken(newToken) ==
  [accessToken |-> newToken,
   refreshToken |-> refreshLog[Len(refreshLog)].tokenAtCall]

\* axios.ts:175-178, the pair written to the store after the await
RefreshedTokens(newToken) ==
  [accessToken |-> newToken, refreshToken |-> refreshToken]

refreshAccessToken_NoTokenCheck(rt) == [io |-> TRUE, token |-> NewAccessToken]

\* axios.ts:64-74: with no refresh token the function returns null at once,
\* otherwise it waits on the 400 ms timer and returns the new token
refreshAccessToken(rt) ==
  IF rt = NULL
  THEN [io |-> FALSE, token |-> NULL]
  ELSE [io |-> TRUE, token |-> NewAccessToken]

CanStartRefresh_NoFlagTest == TRUE

\* axios.ts:171, the test of the flag
CanStartRefresh == ~isRefreshing

RetryEligible_NoRetryFlag(r, status) == status = 401

RetryEligible_Never(r, status) == FALSE

RetryEligible_AnyErrorStatus(r, status) == status >= 400 /\ ~req[r].retry

\* axios.ts:167, the test of the single-use retry flag
RetryEligible(r, status) == status = 401 /\ ~req[r].retry

\* the request awaiting refreshAccessToken(), if any
Refresher == {r \in Requests : req[r].pc = "refreshing"}

CurrentRefresh == Len(refreshLog)

\* the initiator sits in the microtask hop of a refresh that started no timer
FastGap == \E r \in Refresher : ~refreshLog[CurrentRefresh].io

RequestInterceptor_NoAttach(header, storeAccess) == header

\* axios.ts:123-132, the Authorization header after the request interceptor
RequestInterceptor(header, storeAccess) ==
  IF storeAccess # NULL THEN storeAccess ELSE header

InQueue(r) == \E i \in 1..Len(refreshQueue) : refreshQueue[i] = r

\* ---------------------------------------------------------------- actions
Init ==
  /\ accessToken = InitialTokens.accessToken
  /\ refreshToken = InitialTokens.refreshToken
  /\ isRefreshing = FALSE
  /\ refreshQueue = <<>>
  /\ req = [r \in Requests |-> NewRequest]
  /\ refreshLog = <<>>
  /\ storeFromRefresh = FALSE
  /\ lastWrite = [op |-> "create", tokens |-> InitialTokens]

\* HomePage.onSubmit, the token form
SetTokens(a, rt) ==
  /\ ~FastGap
  /\ setTokens([accessToken |-> a, refreshToken |-> rt])
  /\ lastWrite' = [op |-> "set", tokens |-> [accessToken |-> a, refreshToken |-> rt]]
  /\ storeFromRefresh' = FALSE
  /\ UNCHANGED <<isRefreshing, refreshQueue, req, refreshLog>>

\* HomePage, the reset button (onClick={clearTokens})
ClearTokens ==
  /\ ~FastGap
  /\ clearTokens
  /\ lastWrite' = [op |-> "clear", tokens |-> InitialTokens]
  /\ storeFromRefresh' = FALSE
  /\ UNCHANGED <<isRefreshing, refreshQueue, req, refreshLog>>

\* demo.ts: instance.get(url, {params}); the request interceptor runs and
\* the request is transmitted
Send(r, p) ==
  /\ ~FastGap
  /\ req[r].pc = "new"
  /\ \A q \in Requests : q < r => req[q].pc # "new"
  /\ req' = [req EXCEPT ![r] =
       [@ EXCEPT !.pc = "sent", !.api = ApiOf(r), !.param = p,
                 !.bearer = RequestInterceptor(NULL, accessToken),
                 !.sends = 1,
                 !.afterRefresh = storeFromRefresh]]
  /\ UNCHANGED <<accessToken, refreshToken, isRefreshing, refreshQueue,
                 refreshLog, storeFromRefresh, lastWrite>>

\* axios.ts:146-213, the response interceptor applied to the settled request
Settle(r, status) ==
  IF validateStatus(status)
  THEN \* axios.ts:147
    /\ req' = [req EXCEPT ![r] = [@ EXCEPT !.pc = "done", !.status = status]]
    /\ UNCHANGED <<accessToken, refreshToken, isRefreshing, refreshQueue,
                   refreshLog, storeFromRefresh, lastWrite>>
  ELSE IF RetryEligible(r, status)
  THEN
    IF CanStartRefresh
    THEN \* axios.ts:168-174, up to the await
      LET call == refreshAccessToken(refreshToken) IN
      /\ isRefreshing' = TRUE
      /\ refreshLog' = Append(refreshLog,
           [initiator |-> r, tokenAtCall |-> refreshToken, io |-> call.io,
            token |-> call.token, outcome |-> "pending", run |-> <<>>])
      /\ req' = [req EXCEPT ![r] =
           [@ EXCEPT !.pc = "refreshing", !.status = status, !.retry = TRUE,
                     !.joined = Len(refreshLog) + 1,
                     !.sawInFlight = isRefreshing]]
      /\ UNCHANGED <<accessToken, refreshToken, refreshQueue, storeFromRefresh,
                     lastWrite>>
    ELSE \* axios.ts:168, 190-191
      /\ refreshQueue' = Append(refreshQueue, r)
      /\ req' = [req EXCEPT ![r] =
           [@ EXCEPT !.pc = "awaiting", !.status = status, !.retry = TRUE,
                     !.joined = CurrentRefresh,
                     !.sawInFlight = isRefreshing]]
      /\ UNCHANGED <<accessToken, refreshToken, isRefreshing, refreshLog,
                     storeFromRefresh, lastWrite>>
  ELSE \* axios.ts:210-211
    /\ req' = [req EXCEPT ![r] =
         [@ EXCEPT !.pc = "failed", !.status = status, !.rejected = TRUE,
                   !.redirect = handleGlobalError(status, ApiNames[req[r].api]),
                   !.warn = consoleWarn(status, ApiNames[req[r].api],
                                        UrlOf(req[r].api)),
                   !.effects = Effects(status, ApiNames[req[r].api],
                                       UrlOf(req[r].api))]]
    /\ UNCHANGED <<accessToken, refreshToken, isRefreshing, refreshQueue,
                   refreshLog, storeFromRefresh, lastWrite>>

\* the demo route answers the request
Respond(r) ==
  /\ req[r].pc = "sent"
  /\ Settle(r, GET(req[r].bearer, req[r].param))

\* a backend other than the demo route answers the request (the status
\* parameter is a feature of the demo routes, such a backend is called
\* without it; a bearer marked expired is answered 401 by any backend)
RespondOther(r, status) ==
  /\ req[r].pc = "sent"
  /\ ~IncludesExpired(req[r].bearer)
  /\ req[r].param = "none"
  /\ Settle(r, status)

\* axios.ts:228, timeout or connection error: no response
TransportFail(r) ==
  /\ req[r].pc = "sent"
  /\ Settle(r, 0)

\* axios.ts:191-204, the queued callback of request q called with token
Callback(q, token, storeAccess) ==
  IF token = NULL
  THEN [req[q] EXCEPT !.pc = "failed", !.rejected = TRUE, !.delivered = token,
          !.deliveredBy = CurrentRefresh, !.calls = @ + 1,
          !.redirect = handleGlobalError(req[q].status, ApiNames[req[q].api]),
          !.warn = consoleWarn(req[q].status, ApiNames[req[q].api],
                               UrlOf(req[q].api)),
          !.effects = Effects(req[q].status, ApiNames[req[q].api],
                              UrlOf(req[q].api))]
  ELSE [req[q] EXCEPT !.pc = "sent", !.delivered = token,
          !.deliveredBy = CurrentRefresh, !.calls = @ + 1,
          !.bearer = RequestInterceptor(token, storeAccess),
          !.sends = @ + 1]

publishTokenRefresh_DropsQueue(token, storeAccess) == req

\* axios.ts:49-52, the requests after every queued callback has run
publishTokenRefresh(token, storeAccess) ==
  [q \in Requests |->
     IF InQueue(q) THEN Callback(q, token, storeAccess) ELSE req[q]]

Range(q) == {q[i] : i \in 1..Len(q)}

\* the module state as the statements of the continuation see it
Snapshot ==
  [access |-> accessToken, flag |-> isRefreshing, queue |-> refreshQueue,
   notified |-> {}]

\* axios.ts:175-178
StoreStep(m, newToken) == [m EXCEPT !.access = RefreshedTokens(newToken).accessToken]

\* axios.ts:50
NotifyStep(m) == [m EXCEPT !.notified = Range(m.queue)]

\* axios.ts:51
ClearStep(m) == [m EXCEPT !.queue = <<>>]

IdleStep_KeepsFlag(m) == m

\* axios.ts:185
IdleStep(m) == [m EXCEPT !.flag = FALSE]

\* axios.ts:190-191
SubscribeStep(m, r) == [m EXCEPT !.queue = Append(m.queue, r)]

ResolveSteps_PublishBeforeStore(r, newToken) ==
  LET m0 == Snapshot
      m1 == NotifyStep(m0)
      m2 == ClearStep(m1)
      m3 == StoreStep(m2, newToken)
      m4 == IdleStep(m3)
      m5 == SubscribeStep(m4, r)
  IN <<m1, m2, m3, m4, m5>>

\* axios.ts:174-191, the statements of the continuation in program order:
\* the state after each statement
ResolveSteps(r, newToken) ==
  LET m0 == Snapshot
      m1 == StoreStep(m0, newToken)
      m2 == NotifyStep(m1)
      m3 == ClearStep(m2)
      m4 == IdleStep(m3)
      m5 == SubscribeStep(m4, r)
  IN <<m1, m2, m3, m4, m5>>

\* axios.ts:174-191, the continuation of the initiator after the await
RefreshResolve(r) ==
  /\ req[r].pc = "refreshing"
  /\ LET newToken == refreshLog[CurrentRefresh].token
         run == ResolveSteps(r, newToken)
         final == run[Len(run)]
         published == publishTokenRefresh(newToken, final.access)
     IN
     /\ setTokens(RefreshedTokens(newToken))
     /\ lastWrite' = [op |-> "set", tokens |-> RefreshedTokens(newToken)]
     /\ req' = [published EXCEPT ![r] = [@ EXCEPT !.pc = "awaiting"]]
     /\ refreshQueue' = final.queue
     /\ isRefreshing' = final.flag
     /\ refreshLog' = [refreshLog EXCEPT ![CurrentRefresh] =
           [@ EXCEPT !.outcome = IF newToken = NULL THEN "fail" ELSE "ok",
                     !.run = run]]
     /\ storeFromRefresh' = (newToken # NULL)

Next ==
  \/ \E a \in FormAccessTokens, rt \in FormRefreshTokens : SetTokens(a, rt)
  \/ ClearTokens
  \/ \E r \in Requests, p \in Params : Send(r, p)
  \/ \E r \in Requests : Respond(r)
  \/ \E r \in Requests, s \in OtherStatuses : RespondOther(r, s)
  \/ \E r \in Requests : TransportFail(r)
  \/ \E r \in Requests : RefreshResolve(r)

Spec == Init /\ [][Next]_vars

\* the token form accepts any refresh token of three characters or more:
\* a second one, to tell the refresh token a refresh was started with from
\* the one the store holds when it completes
OtherRefreshTokens == {"other-refresh"}

\* the program with a form that may also submit the second refresh token
StoreRaceNext ==
  \/ \E rt \in OtherRefreshTokens : SetTokens("demo-access", rt)
  \/ Next

StoreRaceSpec == Init /\ [][StoreRaceNext]_vars

\* axios.ts:72, 174: the 400 ms timer of a started refresh fires, and the
\* await of a call that returned at once is resumed by the microtask queue,
\* so the continuation of the initiator is not postponed for ever
FairSpec == Spec /\ WF_vars(\E r \in Requests : RefreshResolve(r))

\* ------------------------------------------------------------------ claims
Pending == {k \in DOMAIN refreshLog : refreshLog[k].outcome = "pending"}

Initiators == {refreshLog[k].initiator : k \in DOMAIN refreshLog}

\* C1: at most one refresh is in flight at any time, and a request whose 401
\* was handled while a refresh was in flight has been enqueued as a waiter
\* and is the initiator of no refresh.
C1_SingleRefreshInFlight ==
  /\ Cardinality(Pending) <= 1
  /\ Cardinality(Refresher) <= 1
  /\ isRefreshing <=> Pending # {}
  /\ \A r \in Requests :
       req[r].sawInFlight =>
         /\ r \notin Initiators
         /\ req[r].pc \in {"awaiting", "sent", "done", "failed"}
         /\ req[r].pc = "awaiting" => InQueue(r)

C1_Witness ==
  /\ isRefreshing
  /\ \E r \in Requests :
       req[r].sawInFlight /\ req[r].pc = "awaiting" /\ InQueue(r)

\* C2: the refresh operation is invoked once for a batch: the step that
\* leaves Idle invokes it exactly once, and no step taken while the refresh
\* is in flight invokes it again.
C2_RefreshInvokedOnce ==
  [][/\ isRefreshing => Len(refreshLog') = Len(refreshLog)
     /\ (~isRefreshing /\ isRefreshing') => Len(refreshLog') = Len(refreshLog) + 1]_vars

C2_Witness ==
  /\ isRefreshing
  /\ Len(refreshLog) = 1
  /\ \A r \in Requests :
       req[r].pc \in {"refreshing", "awaiting"} /\ req[r].joined = 1

\* C3 (as claimed): once a refresh has succeeded, every request that was
\* awaiting it, the initiator included, has been handed the new token and
\* has been retransmitted.
C3_SuccessReachesEveryWaiter ==
  \A r \in Requests :
    (req[r].joined # 0 /\ refreshLog[req[r].joined].outcome = "ok") =>
      /\ req[r].delivered = refreshLog[req[r].joined].token
      /\ req[r].sends = 2

\* C4 (as claimed): once a refresh has failed, every request that was
\* awaiting it, the initiator included, has been rejected to its caller
\* and was transmitted only once.
C4_FailureReachesEveryWaiter ==
  \A r \in Requests :
    (req[r].joined # 0 /\ refreshLog[req[r].joined].outcome = "fail") =>
      /\ req[r].pc = "failed"
      /\ req[r].rejected
      /\ req[r].sends = 1

\* C5: a request is transmitted at most twice; once it has been retried it
\* never starts or joins a refresh, and a 401 on the retry is rejected to
\* the caller.
C5_AtMostOneRetry ==
  \A r \in Requests :
    /\ req[r].sends <= 2
    /\ req[r].sends = 2 =>
         /\ req[r].pc \in {"sent", "done", "failed"}
         /\ (req[r].pc # "sent" /\ req[r].status = 401) =>
              (req[r].pc = "failed" /\ req[r].rejected)

C5_Witness ==
  \E r \in Requests :
    req[r].sends = 2 /\ req[r].status = 401 /\ req[r].pc = "failed"

\* the step settles request r with a status that is neither 2xx nor 401
\* (0: no response at all)
SettlesWithOtherError(r) ==
  /\ req[r].pc = "sent"
  /\ req'[r].pc # "sent"
  /\ req'[r].status # 401
  /\ ~(req'[r].status >= 200 /\ req'[r].status < 300)

\* C6: a request settled with a non-401 error status or with a transport
\* failure is rejected in that step, is not retransmitted, starts no
\* refresh, and the step leaves the refresh flag, the waiter list and the
\* credential store unchanged.
C6_OtherErrorsFailAtOnce ==
  [][\A r \in Requests :
       SettlesWithOtherError(r) =>
         /\ req'[r].pc = "failed"
         /\ req'[r].rejected
         /\ req'[r].sends = req[r].sends
         /\ req'[r].retry = req[r].retry
         /\ Len(refreshLog') = Len(refreshLog)
         /\ UNCHANGED <<isRefreshing, refreshQueue, accessToken, refreshToken>>]_vars

C6_Witness ==
  /\ isRefreshing
  /\ refreshToken # NULL
  /\ \E r \in Requests :
       /\ req[r].pc = "failed"
       /\ req[r].status \in {0, 403, 404, 500}
       /\ req[r].sends = 1
       /\ ~req[r].retry

\* C7: a refresh invoked while the store holds no refresh token starts no
\* refresh I/O, and the step that completes it records a failure and leaves
\* both tokens of the store empty.
C7_NoTokenFastFail ==
  [][\A r \in Requests :
       (/\ req[r].pc = "refreshing"
        /\ refreshLog[CurrentRefresh].tokenAtCall = NULL
        /\ req'[r].pc # "refreshing") =>
         /\ ~refreshLog[CurrentRefresh].io
         /\ refreshLog'[CurrentRefresh].outcome = "fail"
         /\ accessToken' = NULL
         /\ refreshToken' = NULL]_vars

C7_Witness ==
  /\ refreshLog # <<>>
  /\ refreshLog[CurrentRefresh].tokenAtCall = NULL
  /\ refreshLog[CurrentRefresh].outcome = "fail"
  /\ accessToken = NULL
  /\ refreshToken = NULL

\* C8: a request issued while the store still holds what a successful
\* refresh wrote is transmitted with the new access token, and when the
\* demo route answers it, it terminates in that step without starting or
\* joining a refresh.
C8_FreshRequestUsesNewToken ==
  [][\A r \in Requests :
       /\ (req'[r].afterRefresh /\ req'[r].sends = 1) =>
            req'[r].bearer = NewAccessToken
       /\ (/\ req[r].afterRefresh
           /\ req[r].sends = 1
           /\ req[r].pc = "sent"
           /\ req'[r].pc # "sent"
           /\ req'[r].status = GET(req[r].bearer, req[r].param)) =>
            /\ req'[r].pc \in {"done", "failed"}
            /\ Len(refreshLog') = Len(refreshLog)
            /\ UNCHANGED <<isRefreshing, refreshQueue>>]_vars

C8_Witness ==
  \E r \in Requests :
    /\ req[r].afterRefresh
    /\ req[r].pc = "done"
    /\ req[r].sends = 1
    /\ req[r].bearer = NewAccessToken
    /\ storeFromRefresh

\* C9: a request rejected with a status >= 400 other than 401 has a redirect
\* that carries exactly that status and the identity of its dispatcher, and
\* its caller holds the rejection with that same status.
C9_RedirectCarriesStatusAndApi ==
  \A r \in Requests :
    (req[r].pc = "failed" /\ req[r].status >= 400 /\ req[r].status # 401) =>
      /\ req[r].redirect.status = req[r].status
      /\ decodeURIComponent(req[r].redirect.api) = ApiNames[ApiOf(r)]
      /\ req[r].rejected

C9_Witness ==
  \E r \in Requests :
    /\ ApiOf(r) = "vendorApi"
    /\ req[r].pc = "failed"
    /\ req[r].status = 404
    /\ req[r].redirect =
         [status |-> 404, api |-> <<"V","e","n","d","o","r","-","E","R","P">>]
    /\ refreshLog = <<>>

\* C10 (as claimed): every request that ended in a terminal failure has a
\* redirect carrying the status of that failure.
C10_EveryFailureRedirects ==
  \A r \in Requests :
    req[r].pc = "failed" =>
      /\ req[r].redirect # NoRedirect
      /\ req[r].redirect.status = req[r].status

\* the step is the continuation of a refresh that produced a token
ResolvesWithToken ==
  \E r \in Requests :
    /\ req[r].pc = "refreshing"
    /\ req'[r].pc # "refreshing"
    /\ refreshLog[CurrentRefresh].token # NULL

\* request q is suspended on the refresh that the step resolves: it is the
\* request that started it, or its 401 was handled while it was in flight
WaitsForCurrentRefresh(q) ==
  /\ req[q].joined = CurrentRefresh
  /\ req[q].pc \in {"refreshing", "awaiting"}

\* C11 (as claimed): when a refresh resolves with a new token, every request
\* waiting for it, the request that started it included, is transmitted
\* once more in that step, on the dispatcher it was first sent on and with
\* the new token as bearer; and when that second transmission settles, the
\* request ends there: resolved for a 2xx, rejected to its caller for
\* anything else.
C11_WaitersResentOnce ==
  [][\A q \in Requests :
       /\ (ResolvesWithToken /\ WaitsForCurrentRefresh(q)) =>
            /\ req'[q].pc = "sent"
            /\ req[q].sends = 1
            /\ req'[q].sends = 2
            /\ req'[q].api = req[q].api
            /\ req'[q].api = ApiOf(q)
            /\ req'[q].param = req[q].param
            /\ req'[q].bearer = refreshLog[CurrentRefresh].token
       /\ (req[q].sends = 2 /\ req[q].pc = "sent" /\ req'[q].pc # "sent") =>
            /\ req'[q].sends = 2
            /\ req'[q].pc \in {"done", "failed"}
            /\ req'[q].pc = "done" <=> validateStatus(req'[q].status)
            /\ req'[q].pc = "failed" => req'[q].rejected]_vars

\* C12: every transmission, first or retry, carries as bearer the access
\* token the store holds at that moment, and none when the store holds none.
C12_BearerIsStoreToken ==
  [][\A r \in Requests :
       req'[r].sends = req[r].sends + 1 => req'[r].bearer = accessToken']_vars

C12_Witness ==
  /\ accessToken # NULL
  /\ \E r \in Requests :
       req[r].sends = 2 /\ req[r].pc = "sent" /\ req[r].bearer = accessToken

\* C13: a request whose 401 was handled while a refresh was in flight waits,
\* untransmitted and queued, until that refresh resolves, and then has had
\* its callback called exactly once, by that refresh and with its outcome;
\* it starts no refresh of its own.
C13_WaiterGetsItsRefresh ==
  \A r \in Requests :
    req[r].sawInFlight =>
      /\ req[r].joined \in DOMAIN refreshLog
      /\ r \notin Initiators
      /\ refreshLog[req[r].joined].outcome = "pending" =>
           /\ req[r].pc = "awaiting"
           /\ InQueue(r)
           /\ req[r].sends = 1
           /\ req[r].calls = 0
      /\ refreshLog[req[r].joined].outcome # "pending" =>
           /\ req[r].calls = 1
           /\ req[r].deliveredBy = req[r].joined
           /\ req[r].delivered = refreshLog[req[r].joined].token
           /\ ~InQueue(r)

C13_Witness ==
  \E r \in Requests :
    /\ req[r].sawInFlight
    /\ refreshLog[req[r].joined].outcome = "ok"
    /\ req[r].calls = 1
    /\ req[r].deliveredBy = req[r].joined
    /\ req[r].delivered = NewAccessToken

\* C14: a request answered 2xx is resolved to its caller in that step, and
\* the step invokes no refresh and leaves the refresh flag, the waiter list
\* and the credential store unchanged.
C14_SuccessTouchesNothing ==
  [][\A r \in Requests :
       (/\ req[r].pc = "sent"
        /\ req'[r].pc # "sent"
        /\ req'[r].status >= 200
        /\ req'[r].status < 300) =>
         /\ req'[r].pc = "done"
         /\ ~req'[r].rejected
         /\ req'[r].sends = req[r].sends
         /\ Len(refreshLog') = Len(refreshLog)
         /\ UNCHANGED <<isRefreshing, refreshQueue, accessToken, refreshToken>>]_vars

C14_Witness ==
  /\ isRefreshing
  /\ refreshToken # NULL
  /\ \E r \in Requests :
       req[r].pc = "done" /\ req[r].status = 200 /\ req[r].sends = 1

\* C15: the step that completes a successful refresh writes the new access
\* token and leaves the refresh token of the store as it was.
C15_RefreshKeepsRefreshToken ==
  [][ResolvesWithToken =>
       /\ refreshToken' = refreshToken
       /\ accessToken' = refreshLog[CurrentRefresh].token]_vars

C15_Witness ==
  /\ refreshLog # <<>>
  /\ refreshLog[CurrentRefresh].outcome = "ok"
  /\ storeFromRefresh
  /\ accessToken = NewAccessToken
  /\ refreshToken = "demo-refresh"

\* what get() returns
getState == [accessToken |-> accessToken, refreshToken |-> refreshToken]

\* C16: the store is created with both tokens empty; after set(c) it holds
\* exactly c, whatever it held before; after clear it holds the empty pair.
C16_StoreSetClear ==
  /\ lastWrite.op = "create" => getState = [accessToken |-> NULL, refreshToken |-> NULL]
  /\ lastWrite.op = "set" => getState = lastWrite.tokens
  /\ lastWrite.op = "clear" => getState = [accessToken |-> NULL, refreshToken |-> NULL]

C16_Witness ==
  /\ lastWrite.op = "set"
  /\ lastWrite.tokens = [accessToken |-> "demo-access", refreshToken |-> "demo-refresh"]
  /\ getState = lastWrite.tokens
  /\ refreshLog # <<>>
  /\ refreshLog[1].outcome = "ok"

\* C17 (as claimed): whenever no refresh is in flight the waiter list is
\* empty.
C17_IdleQueueEmpty == ~isRefreshing => refreshQueue = <<>>

\* C18: in the continuation of a successful refresh the store holds the new
\* token from the first moment a waiter has been notified of it, and the
\* statement that returns the flag to Idle finds every callback that was
\* enqueued notified and the waiter list empty.
C18_StoreThenNotifyThenIdle ==
  \A k \in DOMAIN refreshLog :
    refreshLog[k].outcome = "ok" =>
      LET run == refreshLog[k].run IN
      \A i \in 1..Len(run) :
        /\ run[i].notified # {} => run[i].access = refreshLog[k].token
        /\ (i > 1 /\ run[i-1].flag /\ ~run[i].flag) =>
             /\ run[i].notified = Range(run[1].queue)
             /\ run[i].queue = <<>>

C18_Witness ==
  \E k \in DOMAIN refreshLog :
    /\ refreshLog[k].outcome = "ok"
    /\ refreshLog[k].run[1].queue # <<>>
    /\ \E r \in Requests : req[r].deliveredBy = k /\ req[r].sends = 2

\* handleGlobalError has been called for request r (both call sites reject
\* the request in the same step), with the status kept in req[r].status
Classified(r) == req[r].pc = "failed"

\* C19 (as claimed): the classifier is called with a 401 only for a request
\* that has been transmitted a second time.
C19_Only401AfterRetry ==
  \A r \in Requests :
    (Classified(r) /\ req[r].status = 401) => req[r].sends = 2

\* C19 (amended): the classifier is called with a 401 only for a request
\* whose retry flag is set: either its retry was answered 401, or it was
\* never retransmitted and its queued callback was handed the failure of a
\* refresh.
C19_Only401WithRetryFlag ==
  \A r \in Requests :
    (Classified(r) /\ req[r].status = 401) =>
      /\ req[r].retry
      /\ \/ req[r].sends = 2
         \/ req[r].sends = 1 /\ req[r].calls = 1 /\ req[r].delivered = NULL

C19_Witness ==
  \E r \in Requests :
    /\ Classified(r)
    /\ req[r].status = 401
    /\ req[r].retry
    /\ req[r].sends = 1
    /\ req[r].delivered = NULL
    /\ req[r].calls = 1

\* the rejected response of r had a status >= 400 other than 401
RejectedOther(r) ==
  req[r].pc = "failed" /\ req[r].status >= 400 /\ req[r].status # 401

\* C20 (as claimed): every response rejected with a status >= 400 other than
\* 401 has a diagnostic record with the dispatcher identity, the status and
\* the request target, written before the redirect.
C20_DiagnosticForEveryStatus ==
  \A r \in Requests :
    RejectedOther(r) =>
      /\ req[r].warn = [api |-> ApiNames[ApiOf(r)], status |-> req[r].status,
                        url |-> UrlOf(ApiOf(r))]
      /\ req[r].effects = <<"warn", "redirect">>

\* C20 (amended): a 404 has a diagnostic record with the identity, the
\* status and the request target, a 500 one with the identity and the status
\* only, both written before the redirect; any other status >= 400 other
\* than 401 is redirected without a diagnostic record.
C20_DiagnosticFor404And500 ==
  \A r \in Requests :
    RejectedOther(r) =>
      /\ req[r].status = 404 =>
           /\ req[r].warn = [api |-> ApiNames[ApiOf(r)], status |-> 404,
                             url |-> UrlOf(ApiOf(r))]
           /\ req[r].effects = <<"warn", "redirect">>
      /\ req[r].status = 500 =>
           /\ req[r].warn = [api |-> ApiNames[ApiOf(r)], status |-> 500,
                             url |-> NULL]
           /\ req[r].effects = <<"warn", "redirect">>
      /\ req[r].status \notin {404, 500} =>
           /\ req[r].warn = NoWarn
           /\ req[r].effects = <<"redirect">>

C20_Witness ==
  /\ \E r \in Requests :
       /\ RejectedOther(r)
       /\ req[r].status = 404
       /\ req[r].warn.url = "/orders"
       /\ req[r].effects = <<"warn", "redirect">>
  /\ \E r \in Requests :
       RejectedOther(r) /\ req[r].status = 403 /\ req[r].warn = NoWarn

\* the step handles a first 401 of request r
HandlesFirst401(r) ==
  /\ req[r].pc = "sent"
  /\ req'[r].pc # "sent"
  /\ req'[r].status = 401
  /\ ~req[r].retry

\* C21: every refresh that has started is eventually completed with the
\* flag back at Idle, whether it produced a token or none; the step that
\* completes it resets the flag; and a first 401 handled while the flag is
\* at Idle starts a new refresh, also after earlier refreshes have completed.
C21_RefreshEndsIdle ==
  /\ (Pending # {}) ~> (Pending = {} /\ ~isRefreshing)
  /\ [][/\ \A r \in Requests :
            (req[r].pc = "refreshing" /\ req'[r].pc # "refreshing") =>
              (isRefreshing /\ ~isRefreshing')
        /\ \A r \in Requests :
            (HandlesFirst401(r) /\ ~isRefreshing) =>
              /\ isRefreshing'
              /\ req'[r].pc = "refreshing"
              /\ Len(refreshLog') = Len(refreshLog) + 1]_vars

C21_Witness ==
  /\ Len(refreshLog) = 2
  /\ refreshLog[1].outcome = "fail"
  /\ refreshLog[2].outcome = "ok"
  /\ refreshLog[2].initiator # refreshLog[1].initiator
  /\ ~isRefreshing

\* C22: when the store was cleared or replaced while a refresh was in flight
\* and the refresh produces a token, the completing step writes that token
\* as access token and keeps the refresh token the store holds at that
\* moment, not the one the refresh was started with: after a clear the store
\* ends with a non-empty access token and an empty refresh token, after a
\* replacement with the refresh token of the replacement.
C22_CompletionUsesStoreAtCompletion ==
  [][ResolvesWithToken =>
       LET started == refreshLog[CurrentRefresh].tokenAtCall IN
       /\ accessToken' = refreshLog[CurrentRefresh].token
       /\ refreshToken' = getState.refreshToken
       /\ lastWrite.op = "clear" =>
            /\ accessToken' # NULL
            /\ refreshToken' = NULL
            /\ refreshToken' # started
       /\ (lastWrite.op = "set" /\ lastWrite.tokens.refreshToken # started) =>
            /\ accessToken' # lastWrite.tokens.accessToken
            /\ refreshToken' = lastWrite.tokens.refreshToken
            /\ refreshToken' # started]_vars

C22_Witness ==
  /\ refreshLog # <<>>
  /\ refreshLog[CurrentRefresh].outcome = "ok"
  /\ refreshLog[CurrentRefresh].tokenAtCall = "demo-refresh"
  /\ storeFromRefresh
  /\ getState = [accessToken |-> NewAccessToken, refreshToken |-> NULL]

====
